---- MODULE Spec2Model ----
(***************************************************************************)
(* Model of the dependency installer of the FAL Blender add-on             *)
(* (src/blender-script.py; the installer of                                *)
(* src/fal_ai_image_to_3d/__init__.py is line for line the same code).     *)
(*                                                                         *)
(* Three kinds of execution context touch the scene properties:            *)
(*   - the host's main thread, which runs one callback at a time: the      *)
(*     install operator (and install_package under it) or one tick of the  *)
(*     timer callback _monitor_installation;                               *)
(*   - one Python thread per accepted start, running _install_process;     *)
(*   - the pip subprocess each thread spawns.                              *)
(* Python may switch threads between any two property accesses, so every   *)
(* read and every write of a scene property is a step of its own.          *)
(*                                                                         *)
(* Beside the installer the model has unregister(), which deletes the      *)
(* scene properties under whatever is still running, and the functions     *)
(* the panels call between installations: is_package_installed,            *)
(* get_api_key and set_api_key.  These three run on the main thread from   *)
(* begin to end and are one step each.  The diagnostics of log_debug,      *)
(* log_info and log_error (fal_debug_log, fal_status_message) are followed *)
(* for is_package_installed only; the installer reads none of them.        *)
(***************************************************************************)
EXTENDS Integers, Sequences, FiniteSets, TLC

\* ---------------------------------------------------------------- bounds
MaxInstalls == 2      \* accepted start requests in one behaviour
MaxOutLen == 1        \* characters of captured subprocess output
MaxExit == 1          \* largest subprocess exit code
MaxPolled == 2        \* SpecShort: no tick starts once progress is this high
MaxKeyLen == 2        \* characters of an API key
MaxDebugLines == 4    \* lines the queries append to the debug log

\* ------------------------------------------------------ program constants
ProgressMin == 0
ProgressMax == 100
PollCeiling == 90
PidDefault == -1

Workers == 1..MaxInstalls
ExitCodes == 0..MaxExit

\* Characters of the subprocess output: an ordinary character, a carriage
\* return and a line feed.
Chars == {"x", "CR", "LF"}

RECURSIVE TextsOfLen(_)
TextsOfLen(n) ==
    IF n = 0 THEN {<<>>}
    ELSE {<<c>> \o t : c \in Chars, t \in TextsOfLen(n - 1)}

Texts == UNION {TextsOfLen(n) : n \in 0..MaxOutLen}

\* Characters of an API key: an ordinary character and the null character.
KeyChars == {"k", "NUL"}

RECURSIVE KeysOfLen(_)
KeysOfLen(n) ==
    IF n = 0 THEN {<<>>}
    ELSE {<<c>> \o t : c \in KeyChars, t \in KeysOfLen(n - 1)}

Keys == UNION {KeysOfLen(n) : n \in 0..MaxKeyLen}

VARIABLES
    progress,     \* scene.fal_install_progress
    inProgress,   \* scene.fal_install_in_progress
    log,          \* scene.fal_install_log
    success,      \* scene.fal_install_success
    pid,          \* scene.fal_install_pid
    timerRegistered, \* bpy.app.timers.is_registered(_monitor_installation)
    mainpc,       \* position of the main thread
    caller,       \* who entered install_package: "op" or "direct"
    mtmp,         \* the value `+= 1` has read in _monitor_installation
    nstarted,     \* threads started so far
    wpc,          \* position of each worker thread
    wrc,          \* process.returncode, local of the worker
    wout,         \* output, local of the worker
    wsucc,        \* the value of fal_install_success the terminal write read
    wexc,         \* the exception the worker raised, "none" if none
    sub,          \* state of each worker's pip subprocess
    captured,     \* what each subprocess wrote to its capture file
    wres,         \* history: what each worker is about to complete with
    wlogs,        \* history: writes of fal_install_log by each worker
    req,          \* history: was inProgress true when the request was issued
    ipWrites,     \* history: the writes of the current install_package call
    ipThreads,    \* history: threads started by the current call
    lastOutcome,  \* history: outcome of the worker that completed last
    registered,   \* the scene properties exist: register() ... unregister()
    timers,       \* registrations of _monitor_installation the host holds
    tickRaised,   \* history: a tick of the timer callback raised
    debugLines,   \* lines appended to scene.fal_debug_log
    falImportable, \* `import fal` succeeds
    prefsAvailable, \* preferences.addons[__name__].preferences is there
    prefKey,      \* preferences.addons[__name__].preferences.api_key
    envKey,       \* os.environ["FAL_KEY"], Unset if the variable is not set
    instRet,      \* history: what is_package_installed has returned so far
    lastSet,      \* history: <<v, result>> of the set_api_key(v) just made
    getRet        \* history: <<result>> of the get_api_key() just made

fields == <<progress, inProgress, log, success, pid>>
mainvars == <<timerRegistered, mainpc, caller, mtmp>>
workervars == <<nstarted, wpc, wrc, wout, wsucc, wexc, sub, captured>>
history == <<req, ipWrites, ipThreads, lastOutcome, wlogs, wres>>
host == <<registered, timers, tickRaised>>
queryvars == <<debugLines, falImportable, prefsAvailable, prefKey, envKey,
               instRet, lastSet, getRet>>
vars == <<fields, mainvars, workervars, history, host, queryvars>>


\* ------------------------------------------------------------ pure helpers

\* An IntProperty with min=0, max=100 clamps what is assigned to it.
Clamp(v) ==
    IF v > ProgressMax THEN ProgressMax
    ELSE IF v < ProgressMin THEN ProgressMin
    ELSE v

\* A read-back in binary mode: the text as the subprocess wrote it.
ReadTextVerbatim(raw) == raw

\* open(log_path, 'r').read(): text mode with universal newlines, so "\r\n"
\* and a lone "\r" both come back as "\n".
RECURSIVE ReadText(_)
ReadText(raw) ==
    IF raw = <<>> THEN <<>>
    ELSE IF Head(raw) = "CR"
         THEN IF Len(raw) >= 2 /\ raw[2] = "LF"
              THEN <<"LF">> \o ReadText(SubSeq(raw, 3, Len(raw)))
              ELSE <<"LF">> \o ReadText(Tail(raw))
         ELSE <<Head(raw)>> \o ReadText(Tail(raw))

\* error_msg = f"Exception during installation: {str(e)}"
ErrorMsg(e) == <<"Exception during installation: ", e>>

\* success = process.returncode == 0
ExitIsSuccess(rc) == rc = 0

\* 100 if bpy.context.scene.fal_install_success else 0
TerminalProgress(s) == IF s THEN 100 ELSE 0

\* if current_progress < 90
MonitorMayIncrement(cur) == cur < PollCeiling

\* hasattr(scene, "fal_install_in_progress") and scene.fal_install_in_progress
OperatorRejects(ip) == ip

\* A reset that leaves the log and the success flag of the installation
\* before as they might have been.
ResetLogStale == <<"x">>
ResetSuccessStale == TRUE

\* if not bpy.app.timers.is_registered(f): bpy.app.timers.register(f), on
\* the number of registrations of f the host holds.
RegisterAlways(n) == n + 1
RegisterIfAbsent(n) == IF n = 0 THEN 1 ELSE n

\* os.environ without the variable FAL_KEY.
Unset == <<"unset">>

\* log_debug(message): one more line in scene.fal_debug_log when the scene
\* has the property and the calling context may write to the scene (a
\* panel's draw may not: the write raises and the bare except swallows it).
LogDebug(lines, hasProperty, writable) ==
    IF hasProperty /\ writable THEN lines + 1 ELSE lines

HasNul(v) == \E i \in 1..Len(v) : v[i] = "NUL"
NulFreeKeys == {v \in Keys : ~HasNul(v)}

\* prefs.api_key = value: a StringProperty keeps a C string, which ends at
\* the first null character.
RECURSIVE StoreProp(_)
StoreProp(v) ==
    IF v = <<>> \/ Head(v) = "NUL" THEN <<>>
    ELSE <<Head(v)>> \o StoreProp(Tail(v))

\* os.environ["FAL_KEY"] = value raises ValueError (embedded null byte) for
\* a value the environment cannot hold.
EnvAccepts(v) == ~HasNul(v)

\* get_api_key: the preference when it is there and not empty, the
\* environment otherwise, "" when the variable is not set.
KeyReadEnvFirst(available, pref, env) ==
    IF env # Unset /\ env # <<>> THEN env
    ELSE IF available THEN pref ELSE <<>>
KeyRead(available, pref, env) ==
    IF available /\ pref # <<>> THEN pref
    ELSE IF env = Unset THEN <<>> ELSE env

\* set_api_key: return False in the handler of the environment write,
\* return True otherwise.
SetResultStrict(prefsOk, envOk) == prefsOk /\ envOk
SetResult(prefsOk, envOk) == envOk

\* The values install_package resets the four fields to.
ResetProgress == 0
ResetInProgressStale == FALSE
ResetInProgress == TRUE
ResetLog == <<>>
ResetSuccess == FALSE

\* ------------------------------------------------------------------- Init
\* The installer after register(): every property holds its default, no
\* timer is registered and no thread has been started.
InitInstaller ==
    /\ progress = 0
    /\ inProgress = FALSE
    /\ log = <<>>
    /\ success = FALSE
    /\ pid = PidDefault
    /\ timerRegistered = FALSE
    /\ mainpc = "idle"
    /\ caller = "op"
    /\ mtmp = 0
    /\ nstarted = 0
    /\ wpc = [w \in Workers |-> "none"]
    /\ wrc = [w \in Workers |-> 0]
    /\ wout = [w \in Workers |-> <<>>]
    /\ wsucc = [w \in Workers |-> FALSE]
    /\ wexc = [w \in Workers |-> "none"]
    /\ sub = [w \in Workers |-> "none"]
    /\ captured = [w \in Workers |-> <<>>]
    /\ req = "none"
    /\ ipWrites = <<>>
    /\ ipThreads = 0
    /\ lastOutcome = "none"
    /\ wlogs = [w \in Workers |-> 0]
    /\ wres = [w \in Workers |-> "none"]
    /\ registered = TRUE
    /\ timers = 0
    /\ tickRaised = FALSE
    /\ debugLines = 0
    /\ instRet = {}
    /\ lastSet = <<>>
    /\ getRet = <<>>

\* The state after register() in a session in which the package is not
\* importable, the add-on has its preferences and no key is stored.
Init ==
    /\ InitInstaller
    /\ falImportable = FALSE
    /\ prefsAvailable = TRUE
    /\ prefKey = <<>>
    /\ envKey = Unset

\* --------------------------------------------- main thread: the operator

\* FAL_OT_InstallPackage.execute, the test of fal_install_in_progress.  With
\* the flag set the operator goes on to report the warning; otherwise it
\* reports INFO and calls install_package.  A request is accepted at most
\* MaxInstalls times in a behaviour.
OpCheck ==
    /\ mainpc = "idle"
    /\ registered
    /\ IF OperatorRejects(inProgress)
       THEN /\ mainpc' = "op_reject"
            /\ req' = "busy"
            /\ UNCHANGED <<ipWrites, ipThreads, lastOutcome>>
       ELSE /\ nstarted < MaxInstalls
            /\ mainpc' = "ip_progress"
            /\ req' = "free"
            /\ ipWrites' = <<>>
            /\ ipThreads' = 0
            /\ lastOutcome' = "none"
    /\ caller' = "op"
    /\ UNCHANGED <<fields, timerRegistered, mtmp, workervars, wlogs, wres>>
    /\ UNCHANGED <<host, queryvars>>

\* self.report({'WARNING'}, "Installation already in progress");
\* return {'CANCELLED'}
OpReject ==
    /\ mainpc = "op_reject"
    /\ mainpc' = "idle"
    /\ req' = "none"
    /\ UNCHANGED <<fields, timerRegistered, caller, mtmp, workervars,
                   ipWrites, ipThreads, lastOutcome, wlogs, wres>>
    /\ UNCHANGED <<host, queryvars>>

\* return {'FINISHED'}
OpFinish ==
    /\ mainpc = "op_finish"
    /\ mainpc' = "idle"
    /\ req' = "none"
    /\ ipWrites' = <<>>
    /\ ipThreads' = 0
    /\ UNCHANGED <<fields, timerRegistered, caller, mtmp, workervars,
                   lastOutcome, wlogs, wres>>
    /\ UNCHANGED <<host, queryvars>>

\* install_package called by anything but the operator: the method is a
\* public static method and tests nothing before it resets the state.
DirectCall ==
    /\ mainpc = "idle"
    /\ registered
    /\ nstarted < MaxInstalls
    /\ mainpc' = "ip_progress"
    /\ caller' = "direct"
    /\ req' = IF inProgress THEN "busy" ELSE "free"
    /\ ipWrites' = <<>>
    /\ ipThreads' = 0
    /\ lastOutcome' = "none"
    /\ UNCHANGED <<fields, timerRegistered, mtmp, workervars, wlogs, wres>>
    /\ UNCHANGED <<host, queryvars>>

\* ------------------------------------------ main thread: install_package

IpStep(from, to) ==
    /\ mainpc = from
    /\ mainpc' = to
    /\ UNCHANGED <<timerRegistered, caller, mtmp, workervars,
                   req, ipThreads, lastOutcome, wlogs, wres>>
    /\ UNCHANGED <<host, queryvars>>

\* bpy.context.scene.fal_install_progress = 0
IpProgress ==
    /\ IpStep("ip_progress", "ip_inprogress")
    /\ progress' = Clamp(ResetProgress)
    /\ ipWrites' = Append(ipWrites, <<"progress", ResetProgress>>)
    /\ UNCHANGED <<inProgress, log, success, pid>>

\* bpy.context.scene.fal_install_in_progress = True
IpInProgress ==
    /\ IpStep("ip_inprogress", "ip_log")
    /\ inProgress' = ResetInProgress
    /\ ipWrites' = Append(ipWrites, <<"inProgress", ResetInProgress>>)
    /\ UNCHANGED <<progress, log, success, pid>>

\* bpy.context.scene.fal_install_log = ""
IpLog ==
    /\ IpStep("ip_log", "ip_success")
    /\ log' = ResetLog
    /\ ipWrites' = Append(ipWrites, <<"log", ResetLog>>)
    /\ UNCHANGED <<progress, inProgress, success, pid>>

\* bpy.context.scene.fal_install_success = False
IpSuccess ==
    /\ IpStep("ip_success", "ip_thread")
    /\ success' = ResetSuccess
    /\ ipWrites' = Append(ipWrites, <<"success", ResetSuccess>>)
    /\ UNCHANGED <<progress, inProgress, log, pid>>

\* install_thread = threading.Thread(target=_install_process);
\* install_thread.start()
IpThread ==
    /\ mainpc = "ip_thread"
    /\ mainpc' = "ip_timer"
    /\ nstarted' = nstarted + 1
    /\ wpc' = [wpc EXCEPT ![nstarted + 1] = "prep"]
    /\ ipThreads' = ipThreads + 1
    /\ UNCHANGED <<fields, timerRegistered, caller, mtmp,
                   wrc, wout, wsucc, wexc, sub, captured, req, ipWrites,
                   lastOutcome, wlogs, wres>>
    /\ UNCHANGED <<host, queryvars>>

\* if not timers.is_registered(...): timers.register(...); then
\* return install_thread, to the operator or to the direct caller.
IpTimer ==
    /\ mainpc = "ip_timer"
    /\ timers' = RegisterIfAbsent(timers)
    /\ timerRegistered' = (timers' > 0)
    /\ IF caller = "op"
       THEN /\ mainpc' = "op_finish"
            /\ UNCHANGED <<req, ipWrites, ipThreads>>
       ELSE /\ mainpc' = "idle"
            /\ req' = "none"
            /\ ipWrites' = <<>>
            /\ ipThreads' = 0
    /\ UNCHANGED <<fields, caller, mtmp, workervars, lastOutcome, wlogs, wres>>
    /\ UNCHANGED <<registered, tickRaised, queryvars>>

\* --------------------------------- main thread: _monitor_installation

\* One tick begins: if not bpy.context.scene.fal_install_in_progress.  With
\* the flag clear the callback redraws and returns None, which unregisters
\* the timer.  maxPolled bounds the ticks the host fits into one
\* installation: no tick starts once progress has reached it.
MonitorCheck(maxPolled) ==
    /\ mainpc = "idle"
    /\ timerRegistered
    /\ registered
    /\ IF ~inProgress
       THEN /\ timers' = timers - 1
            /\ timerRegistered' = (timers' > 0)
            /\ mainpc' = "idle"
       ELSE /\ progress < maxPolled
            /\ mainpc' = "m_read"
            /\ UNCHANGED <<timerRegistered, timers>>
    /\ UNCHANGED <<fields, caller, mtmp, workervars, history>>
    /\ UNCHANGED <<registered, tickRaised, queryvars>>

\* current_progress = scene.fal_install_progress; if current_progress < 90.
\* At the ceiling the callback redraws and returns 0.2.
MonitorRead ==
    /\ mainpc = "m_read"
    /\ mainpc' = IF MonitorMayIncrement(progress) THEN "m_incread" ELSE "idle"
    /\ UNCHANGED <<fields, timerRegistered, caller, mtmp, workervars, history>>
    /\ UNCHANGED <<host, queryvars>>

\* scene.fal_install_progress += 1, the read
MonitorIncRead ==
    /\ mainpc = "m_incread"
    /\ mtmp' = progress
    /\ mainpc' = "m_incwrite"
    /\ UNCHANGED <<fields, timerRegistered, caller, workervars, history>>
    /\ UNCHANGED <<host, queryvars>>

\* scene.fal_install_progress += 1, the write; then the redraw and
\* return 0.2
MonitorIncWrite ==
    /\ mainpc = "m_incwrite"
    /\ progress' = Clamp(mtmp + 1)
    /\ mtmp' = 0
    /\ mainpc' = "idle"
    /\ UNCHANGED <<inProgress, log, success, pid, timerRegistered, caller,
                   workervars, history>>
    /\ UNCHANGED <<host, queryvars>>

\* ------------------------------------------- worker thread: _install_process

\* Accepted start requests so far: the threads started, and the request
\* install_package is serving and has not started its thread for yet.
Accepted ==
    nstarted + (IF mainpc \in {"ip_progress", "ip_inprogress", "ip_log",
                               "ip_success", "ip_thread"} THEN 1 ELSE 0)

\* What a worker that reached the end of its try statement has achieved.
Outcome(w) ==
    IF wexc[w] = "none" /\ ExitIsSuccess(wrc[w]) THEN "ok" ELSE "fail"

\* tempfile.NamedTemporaryFile(...) and site.getsitepackages()[0], both
\* before the try statement: an exception here ends the thread.
Prep(w) ==
    /\ wpc[w] = "prep"
    /\ \E r \in {"ok", "tempfile", "sitepackages"} :
          /\ wpc' = [wpc EXCEPT ![w] = IF r = "ok" THEN "spawn" ELSE "crashed"]
          /\ wexc' = [wexc EXCEPT ![w] = IF r = "ok" THEN "none" ELSE r]
    /\ UNCHANGED <<fields, mainvars, nstarted, wrc, wout, wsucc, sub, captured,
                   history>>
    /\ UNCHANGED <<host, queryvars>>

\* open(log_path, 'w') and subprocess.Popen(...), inside the try statement.
Spawn(w) ==
    /\ wpc[w] = "spawn"
    /\ \E ok \in BOOLEAN :
          IF ok
          THEN /\ sub' = [sub EXCEPT ![w] = "running"]
               /\ wpc' = [wpc EXCEPT ![w] = "storepid"]
               /\ UNCHANGED wexc
          ELSE /\ wexc' = [wexc EXCEPT ![w] = "popen"]
               /\ wpc' = [wpc EXCEPT ![w] = "h_log"]
               /\ UNCHANGED sub
    /\ UNCHANGED <<fields, mainvars, nstarted, wrc, wout, wsucc, captured,
                   history>>
    /\ UNCHANGED <<host, queryvars>>

\* bpy.context.scene.fal_install_pid = process.pid
StorePid(w) ==
    /\ wpc[w] = "storepid"
    /\ \E ok \in BOOLEAN :
          IF ok
          THEN /\ registered
               /\ pid' = w
               /\ wpc' = [wpc EXCEPT ![w] = "wait"]
               /\ UNCHANGED wexc
          ELSE /\ wexc' = [wexc EXCEPT ![w] = "storepid"]
               /\ wpc' = [wpc EXCEPT ![w] = "h_log"]
               /\ UNCHANGED pid
    /\ UNCHANGED <<progress, inProgress, log, success, mainvars, nstarted,
                   wrc, wout, wsucc, sub, captured, history>>
    /\ UNCHANGED <<host, queryvars>>

\* process.wait() returns: the subprocess has exited with some code, having
\* written some text to the capture file.  A subprocess that hangs is the
\* behaviour in which this step is never taken.
Wait(w) ==
    /\ wpc[w] = "wait"
    /\ sub[w] = "running"
    /\ \E c \in ExitCodes, raw \in Texts :
          /\ wrc' = [wrc EXCEPT ![w] = c]
          /\ captured' = [captured EXCEPT ![w] = raw]
    /\ sub' = [sub EXCEPT ![w] = "none"]
    /\ wpc' = [wpc EXCEPT ![w] = "read"]
    /\ UNCHANGED <<fields, mainvars, nstarted, wout, wsucc, wexc, history>>
    /\ UNCHANGED <<host, queryvars>>

\* with open(log_path, 'r') as log_file: output = log_file.read()
ReadBack(w) ==
    /\ wpc[w] = "read"
    /\ \E ok \in BOOLEAN :
          IF ok
          THEN /\ wout' = [wout EXCEPT ![w] = ReadText(captured[w])]
               /\ wpc' = [wpc EXCEPT ![w] = "storelog"]
               /\ UNCHANGED wexc
          ELSE /\ wexc' = [wexc EXCEPT ![w] = "readback"]
               /\ wpc' = [wpc EXCEPT ![w] = "h_log"]
               /\ UNCHANGED wout
    /\ UNCHANGED <<fields, mainvars, nstarted, wrc, wsucc, sub, captured,
                   history>>
    /\ UNCHANGED <<host, queryvars>>

\* bpy.context.scene.fal_install_log = output
StoreLog(w) ==
    /\ wpc[w] = "storelog"
    /\ registered
    /\ log' = wout[w]
    /\ wlogs' = [wlogs EXCEPT ![w] = @ + 1]
    /\ wpc' = [wpc EXCEPT ![w] = "storesuccess"]
    /\ UNCHANGED <<progress, inProgress, success, pid, mainvars, nstarted,
                   wrc, wout, wsucc, wexc, sub, captured, req, ipWrites,
                   ipThreads, lastOutcome, wres>>
    /\ UNCHANGED <<host, queryvars>>

\* bpy.context.scene.fal_install_success = success
StoreSuccess(w) ==
    /\ wpc[w] = "storesuccess"
    /\ registered
    /\ success' = ExitIsSuccess(wrc[w])
    /\ wpc' = [wpc EXCEPT ![w] = "clear"]
    /\ UNCHANGED <<progress, inProgress, log, pid, mainvars, nstarted,
                   wrc, wout, wsucc, wexc, sub, captured, history>>
    /\ UNCHANGED <<host, queryvars>>

\* except Exception as e: bpy.context.scene.fal_install_log = error_msg
HandlerLog(w) ==
    /\ wpc[w] = "h_log"
    /\ registered
    /\ log' = ErrorMsg(wexc[w])
    /\ wlogs' = [wlogs EXCEPT ![w] = @ + 1]
    /\ wpc' = [wpc EXCEPT ![w] = "h_success"]
    /\ UNCHANGED <<progress, inProgress, success, pid, mainvars, nstarted,
                   wrc, wout, wsucc, wexc, sub, captured, req, ipWrites,
                   ipThreads, lastOutcome, wres>>
    /\ UNCHANGED <<host, queryvars>>

\* except Exception as e: bpy.context.scene.fal_install_success = False
HandlerSuccess(w) ==
    /\ wpc[w] = "h_success"
    /\ registered
    /\ success' = FALSE
    /\ wpc' = [wpc EXCEPT ![w] = "clear"]
    /\ UNCHANGED <<progress, inProgress, log, pid, mainvars, nstarted,
                   wrc, wout, wsucc, wexc, sub, captured, history>>
    /\ UNCHANGED <<host, queryvars>>

\* bpy.context.scene.fal_install_in_progress = False.  From here on the
\* thread reads none of output, process.returncode, e and the capture file
\* again: the model forgets them and keeps what the worker achieved.
ClearInProgress(w) ==
    /\ wpc[w] = "clear"
    /\ registered
    /\ inProgress' = FALSE
    /\ wres' = [wres EXCEPT ![w] = Outcome(w)]
    /\ wout' = [wout EXCEPT ![w] = <<>>]
    /\ wrc' = [wrc EXCEPT ![w] = 0]
    /\ wexc' = [wexc EXCEPT ![w] = "none"]
    /\ captured' = [captured EXCEPT ![w] = <<>>]
    /\ wpc' = [wpc EXCEPT ![w] = "readsuccess"]
    /\ UNCHANGED <<progress, log, success, pid, mainvars, nstarted, wsucc, sub,
                   req, ipWrites, ipThreads, lastOutcome, wlogs>>
    /\ UNCHANGED <<host, queryvars>>

\* ... = 100 if bpy.context.scene.fal_install_success else 0, the read
ReadSuccess(w) ==
    /\ wpc[w] = "readsuccess"
    /\ registered
    /\ wsucc' = [wsucc EXCEPT ![w] = success]
    /\ wpc' = [wpc EXCEPT ![w] = "writeprogress"]
    /\ UNCHANGED <<fields, mainvars, nstarted, wrc, wout, wexc, sub, captured,
                   history>>
    /\ UNCHANGED <<host, queryvars>>

\* bpy.context.scene.fal_install_progress = ..., the write.  With it the
\* worker has completed its installation; the cleanup is what is left.
WriteProgress(w) ==
    /\ wpc[w] = "writeprogress"
    /\ registered
    /\ progress' = Clamp(TerminalProgress(wsucc[w]))
    /\ wpc' = [wpc EXCEPT ![w] = "cleanup"]
    /\ lastOutcome' = IF w = Accepted THEN wres[w] ELSE lastOutcome
    /\ wres' = [wres EXCEPT ![w] = "none"]
    /\ wsucc' = [wsucc EXCEPT ![w] = FALSE]
    /\ UNCHANGED <<inProgress, log, success, pid, mainvars, nstarted,
                   wrc, wout, wexc, sub, captured, req, ipWrites, ipThreads,
                   wlogs>>
    /\ UNCHANGED <<host, queryvars>>

\* time.sleep(1); os.unlink(log_path), a failure of which is swallowed.
\* Then the thread ends.
Cleanup(w) ==
    /\ wpc[w] = "cleanup"
    /\ wpc' = [wpc EXCEPT ![w] = "done"]
    /\ UNCHANGED <<fields, mainvars, nstarted, wrc, wout, wsucc, wexc, sub,
                   captured, history>>
    /\ UNCHANGED <<host, queryvars>>

\* A subprocess the worker no longer waits for (the exception handler ran
\* after Popen had succeeded) exits on its own.
OrphanExit(w) ==
    /\ sub[w] = "running"
    /\ wpc[w] \notin {"storepid", "wait"}
    /\ sub' = [sub EXCEPT ![w] = "none"]
    /\ UNCHANGED <<fields, mainvars, nstarted, wpc, wrc, wout, wsucc, wexc,
                   captured, history>>
    /\ UNCHANGED <<host, queryvars>>

\* ------------------------------------------------------------ unregister()

\* unregister(): the classes are unregistered and the scene properties are
\* deleted.  Nothing unregisters the timer and nothing stops or joins a
\* worker thread.  The host runs it on the main thread, between callbacks.
Unregister ==
    /\ mainpc = "idle"
    /\ registered
    /\ registered' = FALSE
    /\ UNCHANGED <<fields, mainvars, workervars, history, timers, tickRaised,
                   queryvars>>

\* A tick after unregister(): the read of fal_install_in_progress raises
\* AttributeError, the callback has no handler for it, and the host drops a
\* timer function that raised.
MonitorRaise ==
    /\ mainpc = "idle"
    /\ timerRegistered
    /\ ~registered
    /\ tickRaised' = TRUE
    /\ timers' = timers - 1
    /\ timerRegistered' = (timers' > 0)
    /\ UNCHANGED <<fields, mainpc, caller, mtmp, workervars, history,
                   registered, queryvars>>

\* The places of _install_process that read or write a scene property.
InsideTry == {"storepid", "storelog", "storesuccess"}
OutsideTry == {"h_log", "h_success", "clear", "readsuccess", "writeprogress"}

\* A worker reaches for a scene property after unregister(): AttributeError.
\* Inside the try statement the handler takes over; in the handler and
\* after it the exception ends the thread.
PropertyGone(w) ==
    /\ ~registered
    /\ wpc[w] \in InsideTry \cup OutsideTry
    /\ IF wpc[w] \in InsideTry
       THEN /\ wexc' = [wexc EXCEPT ![w] = "attribute"]
            /\ wpc' = [wpc EXCEPT ![w] = "h_log"]
       ELSE /\ wexc' = [wexc EXCEPT ![w] = "attribute"]
            /\ wpc' = [wpc EXCEPT ![w] = "crashed"]
    /\ UNCHANGED <<fields, mainvars, nstarted, wrc, wout, wsucc, sub, captured,
                   history, host, queryvars>>

\* ------------------------------------------- queries and the credential

\* is_package_installed(): log_debug, import fal, log_debug, return.  The
\* debug log grows by at most MaxDebugLines lines in a behaviour.
IsPackageInstalled ==
    /\ mainpc = "idle"
    /\ \E writable \in BOOLEAN :
          debugLines' = LogDebug(LogDebug(debugLines, registered, writable),
                                 registered, writable)
    /\ debugLines' <= MaxDebugLines
    /\ instRet' = instRet \cup {falImportable}
    /\ UNCHANGED <<fields, mainvars, workervars, history, host, falImportable,
                   prefsAvailable, prefKey, envKey, lastSet, getRet>>

\* get_api_key()
GetApiKey ==
    /\ mainpc = "idle"
    /\ getRet' = <<KeyRead(prefsAvailable, prefKey, envKey)>>
    /\ UNCHANGED <<fields, mainvars, workervars, history, host, debugLines,
                   falImportable, prefsAvailable, prefKey, envKey, instRet,
                   lastSet>>

\* set_api_key(value): the preference is written when it is there, then the
\* environment; a value the environment refuses leaves it as it was.
SetApiKey(value) ==
    /\ mainpc = "idle"
    /\ prefKey' = IF prefsAvailable THEN StoreProp(value) ELSE prefKey
    /\ envKey' = IF EnvAccepts(value) THEN value ELSE envKey
    /\ lastSet' = <<value, SetResult(prefsAvailable, EnvAccepts(value))>>
    /\ getRet' = <<>>
    /\ UNCHANGED <<fields, mainvars, workervars, history, host, debugLines,
                   falImportable, prefsAvailable, instRet>>

\* The user types a key into the field of the add-on preferences
\* (FALAddonPreferences.draw).
PrefsEdit(value) ==
    /\ mainpc = "idle"
    /\ prefsAvailable
    /\ prefKey' = value
    /\ lastSet' = <<>>
    /\ getRet' = <<>>
    /\ UNCHANGED <<fields, mainvars, workervars, history, host, debugLines,
                   falImportable, prefsAvailable, envKey, instRet>>

\* ------------------------------------------------------- specifications

\* What the main thread does apart from the timer callback.
Requests ==
    \/ OpCheck
    \/ OpReject
    \/ OpFinish
    \/ IpProgress
    \/ IpInProgress
    \/ IpLog
    \/ IpSuccess
    \/ IpThread
    \/ IpTimer

Monitor(maxPolled) ==
    \/ MonitorCheck(maxPolled)
    \/ MonitorRead
    \/ MonitorIncRead
    \/ MonitorIncWrite

WorkerThread(w) ==
    \/ Prep(w)
    \/ Spawn(w)
    \/ StorePid(w)
    \/ Wait(w)
    \/ ReadBack(w)
    \/ StoreLog(w)
    \/ StoreSuccess(w)
    \/ HandlerLog(w)
    \/ HandlerSuccess(w)
    \/ ClearInProgress(w)
    \/ ReadSuccess(w)
    \/ WriteProgress(w)
    \/ Cleanup(w)
    \/ OrphanExit(w)

Next ==
    \/ Requests
    \/ Monitor(ProgressMax + 1)
    \/ \E w \in Workers : WorkerThread(w)

\* The add-on as shipped: install_package is reached through the operator,
\* and the timer ticks as often as the host likes.
Spec == Init /\ [][Next]_vars

NextShort ==
    \/ Requests
    \/ Monitor(MaxPolled)
    \/ \E w \in Workers : WorkerThread(w)

\* The add-on as shipped, with installations so short that the timer ticks
\* at most MaxPolled times in each.
SpecShort == Init /\ [][NextShort]_vars

NextDirect ==
    \/ NextShort
    \/ DirectCall

\* Short installations, with install_package also called directly.
SpecDirect == Init /\ [][NextDirect]_vars

NextUnregister ==
    \/ NextShort
    \/ Unregister
    \/ MonitorRaise
    \/ \E w \in Workers : PropertyGone(w)

\* The steps of a request the main thread has begun to serve.
RequestRuns ==
    \/ OpReject
    \/ OpFinish
    \/ IpProgress
    \/ IpInProgress
    \/ IpLog
    \/ IpSuccess
    \/ IpThread
    \/ IpTimer

\* Short installations under fair scheduling: a thread that can take a step
\* takes one, a subprocess that runs exits, and the host calls a registered
\* timer function whenever the main thread is free.  Nothing makes the user
\* issue a request.
SpecFair ==
    /\ Init
    /\ [][NextShort]_vars
    /\ WF_vars(RequestRuns)
    /\ WF_vars(Monitor(MaxPolled))
    /\ \A w \in Workers : WF_vars(WorkerThread(w))

\* A session of any kind: the package importable or not, the add-on with
\* its preferences or run as a script without them, any key stored.
InitQuery ==
    /\ InitInstaller
    /\ falImportable \in BOOLEAN
    /\ prefsAvailable \in BOOLEAN
    /\ prefKey \in NulFreeKeys
    /\ envKey \in NulFreeKeys \cup {Unset}

NextQuery ==
    \/ IsPackageInstalled
    \/ GetApiKey
    \/ \E value \in Keys : SetApiKey(value)
    \/ \E value \in NulFreeKeys : PrefsEdit(value)

\* The queries and the credential, with no installation going on.
SpecQuery == InitQuery /\ [][NextQuery]_vars

\* Short installations in a session in which the add-on may be disabled.
SpecUnregister == Init /\ [][NextUnregister]_vars


\* ------------------------------------------------------------- properties

\* The worker threads that are still running.
Active == {w \in Workers : wpc[w] \notin {"none", "done", "crashed"}}

\* C1: a start request issued while inProgress is true is rejected, whether
\* it comes through the operator or through install_package itself: every
\* step the main thread takes for such a request is the operator's
\* rejection (the warning, CANCELLED), starts no thread and leaves progress,
\* inProgress, log, success and pid as they were.
C1_RejectedWhileInProgress ==
    [][(req = "busy" /\ mainpc' # mainpc) =>
          /\ mainpc = "op_reject"
          /\ UNCHANGED <<fields, nstarted, wpc>>]_vars

\* C2: once the worker of the latest accepted start has completed an
\* installation whose subprocess exited with code 0, and until the next
\* start is accepted, success is true, progress is 100 and inProgress is
\* false.
C2_SuccessIsTerminal ==
    lastOutcome = "ok" => (success /\ progress = 100 /\ ~inProgress)

\* C3: once the worker of the latest accepted start has completed an
\* installation that failed (exit code not 0, or an exception), and until
\* the next start is accepted, success is false, progress is 0 and
\* inProgress is false.
C3_FailureIsTerminal ==
    lastOutcome = "fail" => (~success /\ progress = 0 /\ ~inProgress)

\* C4: no exception escapes a worker thread with inProgress still true.
C4_NoEscapeWhileInProgress ==
    \A w \in Workers : wpc[w] = "crashed" => ~inProgress

\* C5: at most one worker thread is running at any time, the cleanup of a
\* worker that has cleared inProgress included.
C5_OneWorker == Cardinality(Active) <= 1

\* C6: while inProgress is true, progress is at most 90.
C6_CappedWhileInProgress == inProgress => progress <= PollCeiling

\* C7: no step taken while inProgress is and stays true lowers progress.
C7_Monotonic ==
    [][(inProgress /\ inProgress') => progress' >= progress]_vars

\* C8: an accepted start request resets the state before the worker runs:
\* when the thread is about to be started, inProgress is true, log is empty
\* and success is false; and when install_package has returned to the
\* operator it has written progress = 0, inProgress = True, log = "" and
\* success = False, in this order, and has started exactly one thread.
C8_AcceptedStartResets ==
    /\ mainpc = "ip_thread" => (inProgress /\ log = <<>> /\ ~success)
    /\ mainpc = "op_finish" =>
          /\ ipWrites = << <<"progress", 0>>, <<"inProgress", TRUE>>,
                           <<"log", <<>>>>, <<"success", FALSE>> >>
          /\ ipThreads = 1

\* install_package has returned for the second installation, while the
\* subprocess of that installation is still running.
C8_Witness ==
    /\ mainpc = "op_finish"
    /\ nstarted = 2
    /\ wpc[2] = "wait"
    /\ sub[2] = "running"

UniversalNewlines(raw) ==
    LET keep(i) == ~(raw[i] = "LF" /\ i > 1 /\ raw[i - 1] = "CR")
        char(i) == IF raw[i] = "CR" THEN "LF" ELSE raw[i]
        upto[i \in 0..Len(raw)] ==
            IF i = 0 THEN <<>>
            ELSE IF keep(i) THEN Append(upto[i - 1], char(i))
            ELSE upto[i - 1]
    IN  upto[Len(raw)]

TickBegins == mainpc = "idle" /\ (mainpc' = "m_read" \/ timers' # timers)

\* C11: the polling observer stops recurring exactly when it observes
\* inProgress false.  A tick that begins with inProgress true goes on and
\* keeps the timer; a tick that begins with inProgress false changes no
\* field and ends the timer; and no other step ends the timer.
C11_StopsExactlyWhenIdle ==
    [][/\ (TickBegins /\ inProgress) =>
              (mainpc' = "m_read" /\ timers' = timers)
       /\ (TickBegins /\ ~inProgress) =>
              (registered /\ timers' = timers - 1 /\ UNCHANGED fields)
       /\ timers' < timers => TickBegins]_vars

\* C12: no tick of the polling observer raises, the ticks after the scene
\* properties were deleted included.
C12_TickNeverRaises == ~tickRaised

\* C13: the worker and the polling observer never race on a field of the
\* installation state: when the observer stores a value it has computed
\* from a read of progress, progress still holds what was read, so that no
\* write of the worker is lost under it.
C13_NoLostUpdate ==
    [][(mainpc = "m_incwrite" /\ mainpc' = "idle") => progress = mtmp]_vars

\* C14: is_package_installed is a pure query: whatever it has been called,
\* the debug log and the installation state are as register() left them,
\* and all its calls have returned the same result.
C14_PureQuery ==
    /\ Cardinality(instRet) <= 1
    /\ instRet # {} =>
          /\ debugLines = 0
          /\ fields = <<0, FALSE, <<>>, FALSE, PidDefault>>

\* What get_api_key has to return: the preference when it is there and not
\* empty, the environment value otherwise, "" when there is none.
ExpectedKey ==
    IF prefsAvailable /\ prefKey # <<>> THEN prefKey
    ELSE IF envKey = Unset THEN <<>>
    ELSE envKey

\* C15 as stated: get_api_key returns the preference when it is not empty
\* and the environment value otherwise, and right after set_api_key(v) it
\* returns v, for every v.
C15_RoundTripEveryKey ==
    /\ getRet # <<>> => getRet[1] = ExpectedKey
    /\ (getRet # <<>> /\ lastSet # <<>>) => getRet[1] = lastSet[1]

\* C15, amended: get_api_key returns the preference when it is not empty
\* and the environment value otherwise, and right after a set_api_key(v)
\* that returned True it returns v.
C15_RoundTripAcceptedKey ==
    /\ getRet # <<>> => getRet[1] = ExpectedKey
    /\ (getRet # <<>> /\ lastSet # <<>> /\ lastSet[2]) =>
          getRet[1] = lastSet[1]

\* With the preferences there, a key was set, stored in both places and
\* read back.
C15_Witness ==
    /\ prefsAvailable
    /\ prefKey = <<"k", "k">>
    /\ envKey = <<"k", "k">>
    /\ lastSet = << <<"k", "k">>, TRUE >>
    /\ getRet = << <<"k", "k">> >>

\* C16: a missing preference store is degraded silently.  set_api_key
\* returns True with the environment holding the value, or False with a
\* value the environment refuses; without the preferences it still returns
\* True for every value the environment takes, and get_api_key returns the
\* environment value.
C16_DegradesSilently ==
    /\ lastSet # <<>> =>
          /\ lastSet[2] => envKey = lastSet[1]
          /\ ~lastSet[2] => HasNul(lastSet[1])
    /\ (~prefsAvailable /\ lastSet # <<>> /\ ~HasNul(lastSet[1])) =>
          lastSet[2]
    /\ (~prefsAvailable /\ getRet # <<>>) =>
          getRet[1] = (IF envKey = Unset THEN <<>> ELSE envKey)

\* Without the preferences a key was set, and read back from the
\* environment although a preference value is stored.
C16_Witness ==
    /\ ~prefsAvailable
    /\ prefKey = <<"k", "k">>
    /\ lastSet = << <<"k">>, TRUE >>
    /\ envKey = <<"k">>
    /\ getRet = << <<"k">> >>

\* C17: under fair scheduling, with subprocesses that exit, every started
\* installation leads to a state in which inProgress is false and the
\* polling observer has stopped recurring.
C17_StartLeadsToStop ==
    \A w \in Workers :
        (wpc[w] = "prep") ~> (~inProgress /\ ~timerRegistered)

\* C18: the worker publishes log and success before it clears inProgress.
\* A worker that is about to clear the flag has stored its log (the text
\* read back, or the error text) and its success flag; and while inProgress
\* is and stays false no step changes log or success, so that whoever reads
\* inProgress false finds the two final.  The terminal write of progress is
\* the one write that comes later.
C18_PublishedBeforeClear ==
    /\ [](\A w \in Workers :
             wpc[w] = "clear" =>
                 IF wexc[w] = "none"
                 THEN log = wout[w] /\ (success <=> (wrc[w] = 0))
                 ELSE log = ErrorMsg(wexc[w]) /\ ~success)
    /\ [][(~inProgress /\ ~inProgress') => UNCHANGED <<log, success>>]_vars

\* inProgress has been cleared with log and success of a successful
\* installation in place, and progress is not terminal yet.
C18_Witness ==
    /\ ~inProgress
    /\ nstarted = 1
    /\ wpc[1] = "writeprogress"
    /\ success
    /\ log = <<"x">>
    /\ progress = 1

\* The main thread is inside install_package.
InInstallPackage ==
    mainpc \in {"ip_progress", "ip_inprogress", "ip_log", "ip_success",
                "ip_thread", "ip_timer"}

\* C19: the host holds at most one registration of the polling observer,
\* and whenever install_package has returned and inProgress is true (the
\* scene still having the property) the observer is registered.
C19_OneObserverWhileInProgress ==
    /\ timers <= 1
    /\ timerRegistered <=> (timers = 1)
    /\ (registered /\ inProgress /\ ~InInstallPackage) => timerRegistered

\* install_package has returned for a second installation, started while
\* the first worker had not finished its cleanup, with one observer
\* registered.
C19_Witness ==
    /\ mainpc = "op_finish"
    /\ nstarted = 2
    /\ wpc[1] = "cleanup"
    /\ inProgress
    /\ timers = 1

\* C20: a worker writes the installation state only for the installation
\* that launched it: once install_package has reset the state for a later
\* start and has started its thread, no step of the earlier worker changes
\* progress, inProgress, log, success or pid.
C20_OnlyOwnInstallation ==
    [][\A w \in Workers :
          (w < nstarted /\ wpc'[w] # wpc[w]) => UNCHANGED fields]_vars

====
